---- MODULE Spec2Model ----
(***************************************************************************)
(* A model of strew, a mailing-list relay: the bolt-backed subscription   *)
(* store (database/boltdb), the driver registry (database), the server's  *)
(* dispatch loop with its command and post handlers (server.go) and the    *)
(* text form of a message (message.go).                                    *)
(*                                                                         *)
(* Go strings and byte slices are sequences of byte values, so that the   *)
(* CSV encoding of a subscriber set (split on ',', sort, join with ',')   *)
(* and the prefix tests on a subject are computed as the code computes    *)
(* them.                                                                   *)
(***************************************************************************)
EXTENDS Integers, Sequences, FiniteSets, TLC

VARIABLES
    sub,      \* bolt bucket "subscriptions": list key -> CSV bytes
    lst,      \* bolt bucket "lists": list key -> "1" | "0"
    last,     \* the last call made on the store and what it returned
    listCall, \* history: per list key, the most recent of AddList/DelList
    members,  \* history: per list key, the users subscribed and not unsubscribed since
    rwlock,   \* bolt's writer lock: the goroutine holding it, or 0
    txn,      \* per goroutine, the bucket as seen by its open write transaction
    gpc,      \* per goroutine, its position in Subscribe
    gret,     \* per goroutine, the error Subscribe returned
    drivers,  \* the registry map: driver name -> factory
    mu,       \* driversMu: [w |-> the writer or 0, r |-> the set of readers]
    rpc,      \* per registry client, its position in the call it makes
    rcall,    \* per registry client, the call in progress and its local variables
    rret,     \* per registry client, what its last call returned
    regOK,    \* history: name -> factory, as the successful Register calls set it
    invoked,  \* history: per registry client, the factory invocations <<factory, source>>
              \* its call in progress has made
    hd,       \* the handler Serve ran for cur and the error it returned
    sent,     \* the calls to the transport (smtp.SendMail) that handler made
    ctxDone,  \* whether the context passed to Serve is cancelled
    spc,      \* the position of the goroutine that runs Serve
    prod,     \* per producer, the envelope it is blocked sending on srv.msg, if any
    cur,      \* the envelope Serve received last (the variable msg of its loop)
    serveRet, \* what Serve returned, once it has returned
    rt        \* a message, the text MarshalText wrote for it, and what ReadFrom read back

storeVars == <<sub, lst, last, listCall, members>>
concVars  == <<rwlock, txn, gpc, gret>>
regVars   == <<drivers, mu, rpc, rcall, rret, regOK, invoked>>
srvVars   == <<hd, sent>>
loopVars  == <<ctxDone, spc, prod, cur, serveRet>>
mailVars  == <<hd, sent, ctxDone, spc, prod, cur, serveRet, rt>>
vars      == <<sub, lst, last, listCall, members, rwlock, txn, gpc, gret,
               drivers, mu, rpc, rcall, rret, regOK, invoked,
               hd, sent, ctxDone, spc, prod, cur, serveRet, rt>>

----------------------------------------------------------------------------
(* Bounds and input sets *)

\* the longest value (in bytes) a subscription key is let grow to
MaxValLen == 8

\* the number of goroutines calling Subscribe concurrently
NGoroutines == 4

\* the number of concurrent clients of the driver registry
NClients == 2

\* ',' the separator of the CSV encoding
Comma == 44

\* list keys: "go", "an"
LGo == <<103, 111>>
LAn == <<97, 110>>
ListIDs == {LGo, LAn}

\* user strings: "a", "b" and one that contains the separator, "b,a"
UA  == <<97>>
UB  == <<98>>
UBA == <<98, 44, 97>>
Users == {UA, UB, UBA}

\* the user strings without the separator
PlainUsers == {UA, UB}

\* the lists of the server's configuration (cfg.Lists)
CfgLists == {LGo}

----------------------------------------------------------------------------
(* Go's bytes package, as the store uses it *)

\* bytes.Compare(s, t) == -1: lexicographic order on bytes
Less(s, t) ==
    \E i \in 1..Len(t) :
        /\ \A j \in 1..(i - 1) : j <= Len(s) /\ s[j] = t[j]
        /\ (i > Len(s) \/ s[i] < t[i])

\* bytes.Equal
Equal(s, t) == s = t

RECURSIVE Split(_, _)
\* bytes.Split(v, sep) for a one-byte separator: always at least one element,
\* so Split of an empty (or nil) value is one empty element
Split(v, sep) ==
    IF \A i \in 1..Len(v) : v[i] # sep
    THEN <<v>>
    ELSE LET i == CHOOSE n \in 1..Len(v) :
                     v[n] = sep /\ \A m \in 1..(n - 1) : v[m] # sep
         IN  <<SubSeq(v, 1, i - 1)>> \o Split(SubSeq(v, i + 1, Len(v)), sep)

RECURSIVE Join(_, _)
\* bytes.Join(s, sep)
Join(s, sep) ==
    IF s = <<>> THEN <<>>
    ELSE IF Len(s) = 1 THEN s[1]
    ELSE s[1] \o <<sep>> \o Join(Tail(s), sep)

RECURSIVE InsertSorted(_, _)
InsertSorted(x, s) ==
    IF s = <<>> THEN <<x>>
    ELSE IF Less(x, Head(s)) THEN <<x>> \o s
    ELSE <<Head(s)>> \o InsertSorted(x, Tail(s))

RECURSIVE byteSlice_Sort(_)
\* sort.Sort(byteSlice(users)): ascending by bytes.Compare
byteSlice_Sort(s) ==
    IF s = <<>> THEN <<>> ELSE InsertSorted(Head(s), byteSlice_Sort(Tail(s)))

\* the elements of vs that are not equal to user, in order
Without(vs, user) == SelectSeq(vs, LAMBDA v : ~Equal(v, user))

----------------------------------------------------------------------------
(* bolt buckets: a function from the keys present to their values *)

\* Bucket.Get: nil for a key that is absent, the stored bytes (possibly of
\* length 0, and then not nil) for a key that is present
Get(b, k) ==
    IF k \in DOMAIN b THEN [isNil |-> FALSE, bytes |-> b[k]]
    ELSE [isNil |-> TRUE, bytes |-> <<>>]

\* Bucket.Put
Put(b, k, v) == [x \in (DOMAIN b) \cup {k} |-> IF x = k THEN v ELSE b[x]]

EmptyBucket == [x \in {} |-> <<>>]

\* the keys of a bucket in the order a bolt cursor visits them (ascending bytes)
RECURSIVE KeysInOrder(_)
KeysInOrder(ks) ==
    IF ks = {} THEN <<>>
    ELSE LET k == CHOOSE x \in ks : \A y \in ks \ {x} : Less(x, y)
         IN  <<k>> \o KeysInOrder(ks \ {k})

ErrNil == "nil"
ErrInvalidListID == "errInvalidListID"
PanicNotImplemented == "panic: not implemented"

----------------------------------------------------------------------------
(* database/boltdb: the store *)

\* the value Subscribe writes back: drop user, append it, sort, join
subscribeValue(v, user) ==
    Join(byteSlice_Sort(Without(Split(v, Comma), user) \o <<user>>), Comma)

\* the value Unsubscribe writes back: drop user, sort, join
unsubscribeValue(v, user) ==
    Join(byteSlice_Sort(Without(Split(v, Comma), user)), Comma)

\* store.Subscribers
Subscribers(b, list) ==
    LET v == Get(b, list)
    IN  IF v.isNil THEN [err |-> ErrInvalidListID, users |-> <<>>]
        ELSE [err |-> ErrNil, users |-> Split(v.bytes, Comma)]

\* a Lists that returns every key of the "lists" bucket, whatever its value
Lists_everyKey(lb) == KeysInOrder(DOMAIN lb)

\* store.Lists: the keys of the "lists" bucket whose value is "1"
Lists(lb) == SelectSeq(KeysInOrder(DOMAIN lb), LAMBDA k : lb[k] = <<49>>)

Call(op, user, list, err, ret) ==
    [op |-> op, user |-> user, list |-> list, err |-> err, ret |-> ret]

\* an AddList that also initialises the list's subscription key
AddList_initsKey(list) ==
    /\ lst' = Put(lst, list, <<49>>)
    /\ sub' = Put(sub, list, Get(sub, list).bytes)
    /\ listCall' = [listCall EXCEPT ![list] = "AddList"]
    /\ last' = Call("AddList", <<>>, list, ErrNil, <<>>)
    /\ UNCHANGED <<members, concVars, regVars, mailVars>>

\* store.AddList
AddList(list) ==
    /\ lst' = Put(lst, list, <<49>>)
    /\ listCall' = [listCall EXCEPT ![list] = "AddList"]
    /\ last' = Call("AddList", <<>>, list, ErrNil, <<>>)
    /\ UNCHANGED <<sub, members, concVars, regVars, mailVars>>

\* store.DelList
DelList(list) ==
    /\ lst' = Put(lst, list, <<48>>)
    /\ listCall' = [listCall EXCEPT ![list] = "DelList"]
    /\ last' = Call("DelList", <<>>, list, ErrNil, <<>>)
    /\ UNCHANGED <<sub, members, concVars, regVars, mailVars>>

\* store.Subscribe: one bolt write transaction
Subscribe(user, list) ==
    LET v == subscribeValue(Get(sub, list).bytes, user)
    IN  /\ Len(v) <= MaxValLen
        /\ sub' = Put(sub, list, v)
        /\ members' = [members EXCEPT ![list] = @ \cup {user}]
        /\ last' = Call("Subscribe", user, list, ErrNil, <<>>)
        /\ UNCHANGED <<lst, listCall, concVars, regVars, mailVars>>

\* store.Unsubscribe: one bolt write transaction
Unsubscribe(user, list) ==
    LET v == unsubscribeValue(Get(sub, list).bytes, user)
    IN  /\ sub' = Put(sub, list, v)
        /\ members' = [members EXCEPT ![list] = @ \ {user}]
        /\ last' = Call("Unsubscribe", user, list, ErrNil, <<>>)
        /\ UNCHANGED <<lst, listCall, concVars, regVars, mailVars>>

SubscribersCall(list) ==
    LET r == Subscribers(sub, list)
    IN  /\ last' = Call("Subscribers", <<>>, list, r.err, r.users)
        /\ UNCHANGED <<sub, lst, listCall, members, concVars, regVars, mailVars>>

ListsCall ==
    /\ last' = Call("Lists", <<>>, <<>>, ErrNil, Lists(lst))
    /\ UNCHANGED <<sub, lst, listCall, members, concVars, regVars, mailVars>>

\* store.Users
Users_store == [err |-> PanicNotImplemented, users |-> <<>>]

UsersCall ==
    /\ last' = Call("Users", <<>>, <<>>, Users_store.err, Users_store.users)
    /\ UNCHANGED <<sub, lst, listCall, members, concVars, regVars, mailVars>>

----------------------------------------------------------------------------
(* database/boltdb.go: BoltDataStore, the store's predecessor on the same bucket *)

\* BoltDataStore.Lists: every key of the "subscriptions" bucket
BoltDataStore_Lists(b) == KeysInOrder(DOMAIN b)

RECURSIVE BoltDataStore_UsersOf(_, _)
BoltDataStore_UsersOf(b, mailingLists) ==
    IF mailingLists = <<>> THEN <<>>
    ELSE Subscribers(b, Head(mailingLists)).users
             \o BoltDataStore_UsersOf(b, Tail(mailingLists))

\* BoltDataStore.Users: the subscribers of every key, appended list after list
BoltDataStore_Users(b) == BoltDataStore_UsersOf(b, BoltDataStore_Lists(b))

BoltDataStoreUsersCall ==
    /\ last' = Call("BoltDataStore.Users", <<>>, <<>>, ErrNil, BoltDataStore_Users(sub))
    /\ UNCHANGED <<sub, lst, listCall, members, concVars, regVars, mailVars>>

----------------------------------------------------------------------------
(* server.go: the server's start-up and its read of the subscription bucket *)

RECURSIVE InitKeys(_, _)
\* the loop of NewServer: for each configured list, Put(id, Get(id))
InitKeys(b, ids) ==
    IF ids = {} THEN b
    ELSE LET id == CHOOSE x \in ids : TRUE
         IN  InitKeys(Put(b, id, Get(b, id).bytes), ids \ {id})

\* NewServer: one bolt write transaction over the configured lists
NewServer ==
    /\ sub' = InitKeys(sub, CfgLists)
    /\ last' = Call("NewServer", <<>>, <<>>, ErrNil, <<>>)
    /\ UNCHANGED <<lst, listCall, members, concVars, regVars, mailVars>>

\* Server.subscribers
subscribers(b, list) ==
    LET v == Get(b, list)
    IN  IF v.isNil THEN [err |-> ErrInvalidListID, users |-> <<>>]
        ELSE [err |-> ErrNil, users |-> Split(v.bytes, Comma)]

subscribersCall(list) ==
    LET r == subscribers(sub, list)
    IN  /\ last' = Call("subscribers", <<>>, list, r.err, r.users)
        /\ UNCHANGED <<sub, lst, listCall, members, concVars, regVars, mailVars>>

----------------------------------------------------------------------------
(* Concurrent Subscribe calls: each runs its function inside bolt's db.Update, *)
(* which takes the database's writer lock, runs the function on the           *)
(* transaction's view of the bucket, commits and releases the lock.           *)

Goroutines == 1..NGoroutines

\* the address goroutine g subscribes: "a", "b", "c", ... all distinct
ConcUser(g) == <<96 + g>>

\* the list all of them subscribe to
ConcList == LGo

\* db.Update, entry: wait for the writer lock, open a transaction on the data
UpdateBegin(g) ==
    /\ gpc[g] = "call"
    /\ rwlock = 0
    /\ rwlock' = g
    /\ txn' = [txn EXCEPT ![g] = sub]
    /\ gpc' = [gpc EXCEPT ![g] = "fn"]
    /\ UNCHANGED <<storeVars, gret, regVars, mailVars>>

\* the function Subscribe passes to db.Update: Get, split, filter, append, sort, Put
SubscribeFn(g) ==
    /\ gpc[g] = "fn"
    /\ txn' = [txn EXCEPT ![g] =
                  Put(@, ConcList, subscribeValue(Get(@, ConcList).bytes, ConcUser(g)))]
    /\ gpc' = [gpc EXCEPT ![g] = "commit"]
    /\ UNCHANGED <<storeVars, rwlock, gret, regVars, mailVars>>

\* db.Update, exit: commit the transaction, release the writer lock, return nil
UpdateCommit(g) ==
    /\ gpc[g] = "commit"
    /\ sub' = txn[g]
    /\ members' = [members EXCEPT ![ConcList] = @ \cup {ConcUser(g)}]
    /\ rwlock' = 0
    /\ gret' = [gret EXCEPT ![g] = ErrNil]
    /\ gpc' = [gpc EXCEPT ![g] = "done"]
    /\ UNCHANGED <<lst, last, listCall, txn, regVars, mailVars>>

----------------------------------------------------------------------------
(* database: the driver registry, used by concurrent clients *)

Clients == 1..NClients

\* driver names: "a", "b"
DriverNames == {<<97>>, <<98>>}

\* the factories a client may register; NilDriver is Go's nil func
NilDriver == "nil"
Factories == {"f1", "f2"}
Sources == {"s1", "s2"}

\* what a factory does with a source: it returns a store or an error of its own
Driver(f, src) ==
    IF f = "f2" /\ src = "s2"
    THEN [store |-> <<>>, err |-> <<"open failed", f, src>>]
    ELSE [store |-> <<"store", f, src>>, err |-> <<>>]

ErrUnknownDriver == <<"strew/database: unknown driver name">>

\* sort.Strings: ascending, Go strings compare bytewise
RECURSIVE sort_Strings(_)
sort_Strings(s) ==
    IF s = <<>> THEN <<>> ELSE InsertSorted(Head(s), sort_Strings(Tail(s)))

\* the orders in which a range over a Go map may visit the keys ks
MapOrders(ks) ==
    {o \in [1..Cardinality(ks) -> ks] : \A i, j \in DOMAIN o : i # j => o[i] # o[j]}

NoCall == [op |-> "none", name |-> <<>>, driver |-> NilDriver, src |-> "",
           ok |-> FALSE, driveri |-> NilDriver]

Ret(op, panic, list, store, err) ==
    [op |-> op, panic |-> panic, list |-> list, store |-> store, err |-> err]

NoRet == Ret("none", "", <<>>, <<>>, <<>>)

\* Register, entry: driversMu.Lock()
RegisterLock(c, name, driver) ==
    /\ rpc[c] = "idle"
    /\ mu.w = 0 /\ mu.r = {}
    /\ mu' = [mu EXCEPT !.w = c]
    /\ rpc' = [rpc EXCEPT ![c] = "Register"]
    /\ rcall' = [rcall EXCEPT ![c] = [NoCall EXCEPT !.op = "Register",
                                         !.name = name, !.driver = driver]]
    /\ rret' = [rret EXCEPT ![c] = NoRet]
    /\ invoked' = [invoked EXCEPT ![c] = <<>>]
    /\ UNCHANGED <<storeVars, concVars, mailVars, drivers, regOK>>

\* a Register that does not check for a name registered before
RegisterBody_noDupCheck(c) ==
    LET name == rcall[c].name
        driver == rcall[c].driver
    IN  /\ rpc[c] = "Register"
        /\ IF driver = NilDriver
           THEN /\ rret' = [rret EXCEPT ![c] =
                       Ret("Register", "Register driver is nil", <<>>, <<>>, <<>>)]
                /\ UNCHANGED <<drivers, regOK>>
           ELSE /\ drivers' = Put(drivers, name, driver)
                /\ regOK' = IF name \in DOMAIN regOK THEN regOK
                            ELSE Put(regOK, name, driver)
                /\ rret' = [rret EXCEPT ![c] = Ret("Register", "", <<>>, <<>>, <<>>)]
        /\ mu' = [mu EXCEPT !.w = 0]
        /\ rpc' = [rpc EXCEPT ![c] = "idle"]
        /\ UNCHANGED <<storeVars, concVars, mailVars, rcall, invoked>>

\* Register, under the lock: panic on a nil driver or a name registered before,
\* else store the driver; the deferred Unlock runs in either case
RegisterBody(c) ==
    LET name == rcall[c].name
        driver == rcall[c].driver
    IN  /\ rpc[c] = "Register"
        /\ IF driver = NilDriver
           THEN /\ rret' = [rret EXCEPT ![c] =
                       Ret("Register", "Register driver is nil", <<>>, <<>>, <<>>)]
                /\ UNCHANGED <<drivers, regOK>>
           ELSE IF name \in DOMAIN drivers
           THEN /\ rret' = [rret EXCEPT ![c] =
                       Ret("Register", "Register called twice", <<>>, <<>>, <<>>)]
                /\ UNCHANGED <<drivers, regOK>>
           ELSE /\ drivers' = Put(drivers, name, driver)
                /\ regOK' = IF name \in DOMAIN regOK THEN regOK
                            ELSE Put(regOK, name, driver)
                /\ rret' = [rret EXCEPT ![c] = Ret("Register", "", <<>>, <<>>, <<>>)]
        /\ mu' = [mu EXCEPT !.w = 0]
        /\ rpc' = [rpc EXCEPT ![c] = "idle"]
        /\ UNCHANGED <<storeVars, concVars, mailVars, rcall, invoked>>

\* Open, entry: driversMu.RLock()
OpenRLock(c, name, src) ==
    /\ rpc[c] = "idle"
    /\ mu.w = 0
    /\ mu' = [mu EXCEPT !.r = @ \cup {c}]
    /\ rpc' = [rpc EXCEPT ![c] = "Open"]
    /\ rcall' = [rcall EXCEPT ![c] = [NoCall EXCEPT !.op = "Open",
                                         !.name = name, !.src = src]]
    /\ rret' = [rret EXCEPT ![c] = NoRet]
    /\ invoked' = [invoked EXCEPT ![c] = <<>>]
    /\ UNCHANGED <<storeVars, concVars, mailVars, drivers, regOK>>

\* an Open that takes whichever driver the map holds
OpenLookup_anyDriver(c) ==
    /\ rpc[c] = "Open"
    /\ rcall' = [rcall EXCEPT ![c] =
           IF DOMAIN drivers # {}
           THEN [rcall[c] EXCEPT !.ok = TRUE,
                     !.driveri = drivers[CHOOSE n \in DOMAIN drivers : TRUE]]
           ELSE [rcall[c] EXCEPT !.ok = FALSE]]
    /\ mu' = [mu EXCEPT !.r = @ \ {c}]
    /\ rpc' = [rpc EXCEPT ![c] = "Open_unlocked"]
    /\ UNCHANGED <<storeVars, concVars, mailVars, drivers, rret, regOK, invoked>>

\* Open, under the read lock: driveri, ok := drivers[driverName]; RUnlock()
OpenLookup(c) ==
    /\ rpc[c] = "Open"
    /\ rcall' = [rcall EXCEPT ![c] =
           IF rcall[c].name \in DOMAIN drivers
           THEN [rcall[c] EXCEPT !.ok = TRUE, !.driveri = drivers[rcall[c].name]]
           ELSE [rcall[c] EXCEPT !.ok = FALSE]]
    /\ mu' = [mu EXCEPT !.r = @ \ {c}]
    /\ rpc' = [rpc EXCEPT ![c] = "Open_unlocked"]
    /\ UNCHANGED <<storeVars, concVars, mailVars, drivers, rret, regOK, invoked>>

\* Open, after the lock: ErrUnknownDriver, or what driveri(dataSourceName) returns
OpenReturn(c) ==
    /\ rpc[c] = "Open_unlocked"
    /\ IF ~rcall[c].ok
       THEN /\ rret' = [rret EXCEPT ![c] = Ret("Open", "", <<>>, <<>>, ErrUnknownDriver)]
            /\ UNCHANGED invoked
       ELSE LET r == Driver(rcall[c].driveri, rcall[c].src)
            IN  /\ invoked' = [invoked EXCEPT ![c] =
                                  Append(@, <<rcall[c].driveri, rcall[c].src>>)]
                /\ rret' = [rret EXCEPT ![c] = Ret("Open", "", <<>>, r.store, r.err)]
    /\ rpc' = [rpc EXCEPT ![c] = "idle"]
    /\ UNCHANGED <<storeVars, concVars, mailVars, drivers, mu, rcall, regOK>>

\* Drivers, entry: driversMu.RLock()
DriversRLock(c) ==
    /\ rpc[c] = "idle"
    /\ mu.w = 0
    /\ mu' = [mu EXCEPT !.r = @ \cup {c}]
    /\ rpc' = [rpc EXCEPT ![c] = "Drivers"]
    /\ rcall' = [rcall EXCEPT ![c] = [NoCall EXCEPT !.op = "Drivers"]]
    /\ rret' = [rret EXCEPT ![c] = NoRet]
    /\ invoked' = [invoked EXCEPT ![c] = <<>>]
    /\ UNCHANGED <<storeVars, concVars, mailVars, drivers, regOK>>

\* Drivers, under the read lock: collect the names in map order, sort them,
\* return; the deferred RUnlock runs
DriversBody(c) ==
    /\ rpc[c] = "Drivers"
    /\ \E list \in MapOrders(DOMAIN drivers) :
           rret' = [rret EXCEPT ![c] = Ret("Drivers", "", sort_Strings(list), <<>>, <<>>)]
    /\ mu' = [mu EXCEPT !.r = @ \ {c}]
    /\ rpc' = [rpc EXCEPT ![c] = "idle"]
    /\ UNCHANGED <<storeVars, concVars, mailVars, drivers, rcall, regOK, invoked>>

----------------------------------------------------------------------------
(* server.go, message.go: the configuration and the messages *)

\* the most mailboxes one To field of a posted envelope names
MaxTo == 2

\* '@', which every address mail.ParseAddressList accepts holds
At == 64

\* "Re: "
RePrefix == <<82, 101, 58, 32>>

\* the subjects handleCommand compares against, and the prefixes it trims
SubjLists         == <<108, 105, 115, 116, 115>>
SubjHelp          == <<104, 101, 108, 112>>
SubjSubscriptions == <<115, 117, 98, 115, 99, 114, 105, 112, 116, 105, 111, 110, 115>>
PfxSubscribe      == <<115, 117, 98, 115, 99, 114, 105, 98, 101>>
PfxUnsubscribe    == <<117, 110, 115, 117, 98, 115, 99, 114, 105, 98, 101>>
TrimSubscribe     == <<115, 117, 98, 115, 99, 114, 105, 98, 101, 32>>
TrimUnsubscribe   == <<117, 110, 115, 117, 98, 115, 99, 114, 105, 98, 101, 32>>

\* addresses: the command address "c@", the list addresses "go@", "an@",
\* "fc@", an archive "ar@", an address nothing is configured for "x@", and a
\* token that is no address "!"
CommandAddress == <<99, 64>>
AGo == <<103, 111, 64>>
AAn == <<97, 110, 64>>
AFc == <<102, 99, 64>>
AAr == <<97, 114, 64>>
AOther == <<120, 64>>
NoAddress == <<33>>

\* list ids next to "go" and "an": "fc", and "zz" that is not configured
LFc == <<102, 99>>
LZz == <<122, 122>>

\* type List
List(id, address, hidden, subscribersOnly, posters, bcc) ==
    [ID |-> id, Address |-> address, Hidden |-> hidden,
     SubscribersOnly |-> subscribersOnly, Posters |-> posters, Bcc |-> bcc]

\* cfg.Lists: an open list with a blind copy, a list with a whitelist, a
\* hidden subscribers-only list with a whitelist
GoList == List(LGo, AGo, FALSE, FALSE, <<>>, <<AAr>>)
AnList == List(LAn, AAn, FALSE, FALSE, <<UA>>, <<>>)
FcList == List(LFc, AFc, TRUE, TRUE, <<UA>>, <<>>)
cfg_Lists == {GoList, AnList, FcList}
cfg_ListIDs == {l.ID : l \in cfg_Lists}

\* what lookupList returns when no list matches
NilList == List(<<>>, <<>>, FALSE, FALSE, <<>>, <<>>)

\* one mailbox of an address-list header: "name <address>", or the bare address
Mailbox(name, address) == [name |-> name, address |-> address]
Addr(address) == Mailbox(<<>>, address)

\* mail.ParseAddressList: an error for an empty field and for a field with an
\* entry that is no address; otherwise the mailboxes of the field
ParseAddressList(field) ==
    IF field = <<>> \/ \E i \in 1..Len(field) :
                          \A j \in 1..Len(field[i].address) : field[i].address[j] # At
    THEN [err |-> "mail: no address", list |-> <<>>]
    ELSE [err |-> ErrNil, list |-> field]

\* type Message; the zero value of a string field is <<>>
Message(subject, from, to, cc, bcc, date, id, inReplyTo, contentType, xlist, body) ==
    [Subject |-> subject, From |-> from, To |-> to, Cc |-> cc, Bcc |-> bcc,
     Date |-> date, ID |-> id, InReplyTo |-> inReplyTo,
     ContentType |-> contentType, XList |-> xlist, Body |-> body]

\* time.Now().Format(time.RFC3339)
Now == "now"

\* Message.Reply
Reply(msg) ==
    Message(RePrefix \o msg.Subject, <<>>, msg.From, <<>>, <<>>, Now, <<>>,
            msg.ID, <<>>, <<>>, <<>>)

\* a ResendAs that copies the Bcc field of the original as it is
ResendAs_keepsBcc(msg, listID, listAddress) ==
    Message(msg.Subject, msg.From, msg.To, msg.Cc, msg.Bcc,
            msg.Date, msg.ID, msg.InReplyTo, <<>>,
            <<Mailbox(listID, listAddress)>>, <<>>)

\* Message.ResendAs
ResendAs(msg, listID, listAddress) ==
    LET bccList == ParseAddressList(msg.Bcc)
        keep == /\ bccList.err = ErrNil
                /\ \E i \in 1..Len(bccList.list) :
                       bccList.list[i].address = listAddress
    IN  Message(msg.Subject, msg.From, msg.To, msg.Cc,
                IF keep THEN <<Mailbox(listID, listAddress)>> ELSE <<>>,
                msg.Date, msg.ID, msg.InReplyTo, <<>>,
                <<Mailbox(listID, listAddress)>>, <<>>)

\* strings.HasPrefix, strings.TrimPrefix
HasPrefix(s, prefix) ==
    Len(s) >= Len(prefix) /\ SubSeq(s, 1, Len(prefix)) = prefix
TrimPrefix(s, prefix) ==
    IF HasPrefix(s, prefix) THEN SubSeq(s, Len(prefix) + 1, Len(s)) ELSE s

----------------------------------------------------------------------------
(* server.go: the subscription bucket as the server reads and writes it *)

\* Server.isSubscribed: some element of the split value equals the user
isSubscribed(b, user, list) ==
    LET vs == Split(Get(b, list).bytes, Comma)
    IN  \E i \in 1..Len(vs) : Equal(vs[i], user)

\* Server.subscribe
subscribe(b, user, list) == Put(b, list, subscribeValue(Get(b, list).bytes, user))

\* Server.unsubscribe
unsubscribe(b, user, list) == Put(b, list, unsubscribeValue(Get(b, list).bytes, user))

\* Server.lookupList: a configured list whose ID or Address is the key; the
\* map is ranged over in no fixed order, so any of the matching lists
lookupListAll(key) == {l \in cfg_Lists : key = l.ID \/ key = l.Address}
lookupList(key) ==
    IF lookupListAll(key) = {} THEN NilList
    ELSE CHOOSE l \in lookupListAll(key) : TRUE

RECURSIVE lookupAddrs(_)
\* the inner loop of lookupLists: one list per address that names one
lookupAddrs(addrs) ==
    IF addrs = <<>> THEN <<>>
    ELSE (IF lookupList(Head(addrs).address) # NilList
          THEN <<lookupList(Head(addrs).address)>> ELSE <<>>)
         \o lookupAddrs(Tail(addrs))

\* Server.lookupLists: To, then Cc, then Bcc; a field that fails to parse is
\* skipped
lookupLists(msg) ==
    lookupAddrs(ParseAddressList(msg.To).list)
    \o lookupAddrs(ParseAddressList(msg.Cc).list)
    \o lookupAddrs(ParseAddressList(msg.Bcc).list)

\* an isCommand that looks at the To field alone
isCommand_toOnly(msg) ==
    LET addrs == ParseAddressList(msg.To)
    IN  /\ addrs.err = ErrNil
        /\ \E i \in 1..Len(addrs.list) : addrs.list[i].address = CommandAddress

\* Server.isCommand
isCommand(msg) ==
    \E f \in {msg.To, msg.Cc, msg.Bcc} :
        LET addrs == ParseAddressList(f)
        IN  /\ addrs.err = ErrNil
            /\ \E i \in 1..Len(addrs.list) : addrs.list[i].address = CommandAddress

\* Server.canPost
canPost(b, from, list) ==
    IF list.SubscribersOnly /\ ~isSubscribed(b, from, list.ID) THEN FALSE
    ELSE IF Len(list.Posters) > 0
         THEN \E i \in 1..Len(list.Posters) : from = list.Posters[i]
         ELSE TRUE

----------------------------------------------------------------------------
(* server.go: the handlers.  A handler is given the subscription bucket, the *)
(* envelope and the transport calls that are going to fail (by their number  *)
(* in the order the handler makes them); it yields the bucket it leaves, the *)
(* transport calls it made and the error it returns.                         *)

ErrSMTP == "smtp: error"

\* the body of a reply: its fixed text, the lists it prints (ID, Name,
\* Description, Address of each) and the argument formatted into it
Body(text, lists, arg) == [text |-> text, lists |-> lists, arg |-> arg]

\* the errors of the transport: a call that fails has an error of its own
SMTPErrors == <<ErrSMTP, "smtp: error (2)", "smtp: error (3)", "smtp: error (4)">>

\* smtp.SendMail: what it returns for the k-th call of a handler when the
\* calls of fails fail
SendMail(k, fails) ==
    IF k \notin fails THEN ErrNil
    ELSE SMTPErrors[((k - 1) % Len(SMTPErrors)) + 1]

\* Server.send: MarshalText, then smtp.SendMail(addr, auth, msg.From, recipients, body),
\* which returns answer
send(msg, recipients, answer) ==
    [from |-> msg.From, to |-> recipients, msg |-> msg, err |-> answer]

\* what a handler yields; did is the change it made to the subscriptions
Outcome(handler, b, calls, err, did) ==
    [handler |-> handler, db |-> b, sent |-> calls, err |-> err, did |-> did]

\* a handler that sends one reply and returns what send returned
ReplyOutcome(handler, b, reply, msg, fails, did) ==
    LET call == send(reply, <<msg.From>>, SendMail(1, fails))
    IN  Outcome(handler, b, <<call>>, call.err, did)

\* Server.handleShowLists
handleShowLists(b, msg, fails) ==
    LET shown == {l.ID : l \in {x \in cfg_Lists : ~x.Hidden}}
        reply == [Reply(msg) EXCEPT
                      !.From = CommandAddress,
                      !.Body = Body("Available mailing lists:", shown, CommandAddress)]
    IN  ReplyOutcome("handleShowLists", b, reply, msg, fails, "none")

\* Server.handleHelp
handleHelp(b, msg, fails) ==
    LET reply == [Reply(msg) EXCEPT
                      !.From = CommandAddress,
                      !.Body = Body("commandInfo", {}, CommandAddress)]
    IN  ReplyOutcome("handleHelp", b, reply, msg, fails, "none")

\* Server.handleShowSubscriptions
handleShowSubscriptions(b, msg, fails) ==
    LET shown == {l.ID : l \in {x \in cfg_Lists :
                                   ~x.Hidden /\ isSubscribed(b, msg.From, x.ID)}}
        reply == [Reply(msg) EXCEPT
                      !.From = CommandAddress,
                      !.Body = Body("Mailing lists:", shown, CommandAddress)]
    IN  ReplyOutcome("handleShowSubscriptions", b, reply, msg, fails, "none")

\* Server.handleSubscribe
handleSubscribe(b, msg, fails) ==
    LET listID == TrimPrefix(msg.Subject, TrimSubscribe)
        list == lookupList(listID)
        text == IF list = NilList THEN "Unable to subscribe to %s  - it is not a valid mailing list."
                ELSE IF isSubscribed(b, msg.From, list.ID) THEN "You are already subscribed to %s"
                ELSE "You are now subscribed to %s"
        arg == IF list = NilList THEN listID ELSE list.ID
        reply == [Reply(msg) EXCEPT !.Body = Body(text, {}, arg)]
    IN  IF list # NilList /\ ~isSubscribed(b, msg.From, list.ID)
        THEN ReplyOutcome("handleSubscribe", subscribe(b, msg.From, list.ID),
                          reply, msg, fails, <<"subscribe", list.ID>>)
        ELSE ReplyOutcome("handleSubscribe", b, reply, msg, fails, "none")

\* Server.handleUnsubscribe
handleUnsubscribe(b, msg, fails) ==
    LET listID == TrimPrefix(msg.Subject, TrimUnsubscribe)
        list == lookupList(listID)
        text == IF list = NilList THEN "Unable to unsubscribe from %s  - it is not a valid mailing list."
                ELSE IF ~isSubscribed(b, msg.From, list.ID) THEN "You aren't subscribed to %s"
                ELSE "You are now unsubscribed from %s"
        arg == IF list = NilList THEN listID ELSE list.ID
        reply == [Reply(msg) EXCEPT !.Body = Body(text, {}, arg)]
    IN  IF list # NilList /\ isSubscribed(b, msg.From, list.ID)
        THEN ReplyOutcome("handleUnsubscribe", unsubscribe(b, msg.From, list.ID),
                          reply, msg, fails, <<"unsubscribe", list.ID>>)
        ELSE ReplyOutcome("handleUnsubscribe", b, reply, msg, fails, "none")

\* Server.handleUnknownCommand
handleUnknownCommand(b, msg, fails) ==
    LET reply == [Reply(msg) EXCEPT
                      !.From = CommandAddress,
                      !.Body = Body("%s is not a valid command. Valid commands are: commandInfo",
                                    {}, msg.Subject)]
    IN  ReplyOutcome("handleUnknownCommand", b, reply, msg, fails, "none")

\* Server.handleCommand
handleCommand(b, msg, fails) ==
    IF msg.Subject = SubjLists THEN handleShowLists(b, msg, fails)
    ELSE IF msg.Subject = SubjHelp THEN handleHelp(b, msg, fails)
    ELSE IF msg.Subject = SubjSubscriptions THEN handleShowSubscriptions(b, msg, fails)
    ELSE IF HasPrefix(msg.Subject, PfxSubscribe) THEN handleSubscribe(b, msg, fails)
    ELSE IF HasPrefix(msg.Subject, PfxUnsubscribe) THEN handleUnsubscribe(b, msg, fails)
    ELSE handleUnknownCommand(b, msg, fails)

\* Server.handleNoDestination
handleNoDestination(b, msg, fails) ==
    LET reply == [Reply(msg) EXCEPT
                      !.From = CommandAddress,
                      !.Body = Body("No mailing lists addressed. Your message has not been delivered.",
                                    {}, <<>>)]
    IN  ReplyOutcome("handleNoDestination", b, reply, msg, fails, "none")

\* Server.handleNotAuthorizedToPost: the k-th transport call of handleMessage
handleNotAuthorizedToPost(msg, list, answer) ==
    LET reply == [Reply(msg) EXCEPT
                      !.From = CommandAddress,
                      !.Body = Body("You are not an approved poster for this mailing list (%s). Your message has not been delivered.",
                                    {}, list.Address)]
    IN  send(reply, <<msg.From>>, answer)

\* Server.sendList: the subscribers of the list, then its Bcc; the call is
\* not made when subscribers fails
sendList(b, msg, list, answer) ==
    LET r == subscribers(b, list.ID)
    IN  IF r.err # ErrNil THEN [err |-> r.err, calls |-> <<>>]
        ELSE LET call == send(msg, r.users \o list.Bcc, answer)
             IN  [err |-> call.err, calls |-> <<call>>]

RECURSIVE handleMessageLoop_stopsAtFailure(_, _, _, _, _, _, _)
\* a handleMessage that returns at the first list that fails
handleMessageLoop_stopsAtFailure(b, msg, lists, k, fails, calls, lastErr) ==
    IF k > Len(lists) \/ lastErr # ErrNil
    THEN Outcome("handleMessage", b, calls, lastErr, "none")
    ELSE LET list == lists[k]
         IN  IF ~canPost(b, msg.From, list)
             THEN LET call == handleNotAuthorizedToPost(msg, list, SendMail(k, fails))
                  IN  handleMessageLoop_stopsAtFailure(b, msg, lists, k + 1, fails,
                                                       Append(calls, call), call.err)
             ELSE LET fwd == ResendAs(msg, list.ID, list.Address)
                      r == sendList(b, fwd, list, SendMail(k, fails))
                  IN  handleMessageLoop_stopsAtFailure(b, msg, lists, k + 1, fails,
                                                       calls \o r.calls, r.err)

RECURSIVE handleMessageLoop(_, _, _, _, _, _, _)
\* the loop of handleMessage from its k-th iteration on: calls are the
\* transport calls made so far, lastErr is the variable last
handleMessageLoop(b, msg, lists, k, fails, calls, lastErr) ==
    IF k > Len(lists) THEN Outcome("handleMessage", b, calls, lastErr, "none")
    ELSE LET list == lists[k]
         IN  IF ~canPost(b, msg.From, list)
             THEN LET call == handleNotAuthorizedToPost(msg, list, SendMail(k, fails))
                  IN  handleMessageLoop(b, msg, lists, k + 1, fails,
                                        Append(calls, call),
                                        IF call.err # ErrNil THEN call.err ELSE lastErr)
             ELSE LET fwd == ResendAs(msg, list.ID, list.Address)
                      r == sendList(b, fwd, list, SendMail(k, fails))
                  IN  handleMessageLoop(b, msg, lists, k + 1, fails,
                                        calls \o r.calls,
                                        IF r.err # ErrNil THEN r.err ELSE lastErr)

\* Server.handleMessage
handleMessage(b, msg, fails) ==
    IF Len(lookupLists(msg)) = 0 THEN handleNoDestination(b, msg, fails)
    ELSE handleMessageLoop(b, msg, lookupLists(msg), 1, fails, <<>>, ErrNil)

\* the body of Serve's loop for one envelope: classify it, run its handler
dispatch(b, msg, fails) ==
    IF isCommand(msg) THEN handleCommand(b, msg, fails)
    ELSE handleMessage(b, msg, fails)

----------------------------------------------------------------------------
(* server.go: one iteration of Serve's loop, and the envelopes it is given *)

\* the senders of the envelopes: "a", and "b,a" whose From names two mailboxes
Senders == {UA, UBA}

\* "m1", a Message-ID; "hi", a body; "Hello", a subject that is no command
MsgID == <<109, 49>>
BodyHi == <<104, 105>>
SubjHello == <<72, 101, 108, 108, 111>>

\* an envelope as the front end hands it to Msg()
Envelope(subject, from, to, cc, bcc) ==
    Message(subject, from, to, cc, bcc, <<>>, MsgID, <<>>, <<>>, <<>>, BodyHi)

\* the lists a subscribe or unsubscribe command of the model names
CmdListIDs == {LGo, LFc}

\* "Lists", "subscribers", "subscribego": subjects near a command
SubjListsUpper   == <<76, 105, 115, 116, 115>>
SubjSubscribers  == <<115, 117, 98, 115, 99, 114, 105, 98, 101, 114, 115>>
SubjSubscribeGo  == <<115, 117, 98, 115, 99, 114, 105, 98, 101, 103, 111>>

\* the subjects of the command envelopes
SubscribeSubjects == {TrimSubscribe \o k : k \in CmdListIDs \cup {AGo, LZz}}
UnsubscribeSubjects == {TrimUnsubscribe \o k : k \in CmdListIDs \cup {LZz}}
CmdSubjects ==
    {SubjLists, SubjHelp, SubjSubscriptions, SubjListsUpper, SubjSubscribers,
     SubjSubscribeGo, PfxSubscribe, PfxUnsubscribe, SubjHello}
    \cup SubscribeSubjects \cup UnsubscribeSubjects

\* envelopes addressed to the command address alone
CmdEnvelopes ==
    {Envelope(s, f, <<Addr(CommandAddress)>>, <<>>, <<>>) :
         s \in CmdSubjects, f \in Senders}

\* the sequences over S of length 1..n
RECURSIVE SeqsUpTo(_, _)
SeqsUpTo(S, n) ==
    IF n = 0 THEN {}
    ELSE {<<x>> : x \in S}
         \cup {Append(q, x) : q \in SeqsUpTo(S, n - 1), x \in S}

\* posts: To names up to MaxTo of the list addresses and "x@"; a post to one
\* address may name the list "go" in its Bcc
PostEnvelopes ==
    {Envelope(SubjHello, f, to, <<>>, <<>>) :
         f \in Senders,
         to \in SeqsUpTo({Addr(a) : a \in {AGo, AAn, AFc, AOther}}, MaxTo)}
    \cup {Envelope(SubjHello, f, <<Addr(a)>>, <<>>, <<Addr(AGo)>>) :
              f \in Senders, a \in {AGo, AFc, AOther}}

\* the commands that change who is subscribed while posts arrive
MembershipEnvelopes ==
    {Envelope(s, f, <<Addr(CommandAddress)>>, <<>>, <<>>) :
         s \in {TrimSubscribe \o l : l \in CmdListIDs}
               \cup {TrimUnsubscribe \o l : l \in CmdListIDs},
         f \in Senders}

\* what a recipient field of an envelope to classify holds: nothing, a token
\* that is no address, the command address, a list address, both, the
\* command address next to a token that is no address
RecipientFields ==
    {<<>>, <<Addr(NoAddress)>>, <<Addr(CommandAddress)>>, <<Addr(AGo)>>,
     <<Addr(AGo), Addr(CommandAddress)>>, <<Addr(CommandAddress), Addr(NoAddress)>>}

\* the envelopes to classify: every combination of the recipient fields
AnyEnvelopes ==
    {Envelope(s, UA, to, cc, bcc) :
         s \in {SubjLists, SubjHello},
         to \in RecipientFields, cc \in RecipientFields, bcc \in RecipientFields}

\* what hd holds once the handler of cur has returned
Handled(msg, o) ==
    [command |-> isCommand(msg), handler |-> o.handler, err |-> o.err, did |-> o.did]

\* what hd holds before
NotHandled == [command |-> FALSE, handler |-> "none", err |-> ErrNil, did |-> "none"]

NoMessage == Message(<<>>, <<>>, <<>>, <<>>, <<>>, <<>>, <<>>, <<>>, <<>>, <<>>, <<>>)

\* the subscribers history after a handler that did d for user
membersAfter(m, user, d) ==
    IF d = "none" THEN m
    ELSE IF d[1] = "subscribe" THEN [m EXCEPT ![d[2]] = @ \cup {user}]
    ELSE [m EXCEPT ![d[2]] = @ \ {user}]

\* the transport calls a handler can make for msg
NCalls(msg) ==
    IF isCommand(msg) \/ Len(lookupLists(msg)) = 0 THEN 1 ELSE Len(lookupLists(msg))

\* Serve, case msg := <-srv.msg: the channel has no buffer, so the receive is
\* the send of a producer that offers msg
Recv(msg) ==
    /\ spc = "select"
    /\ spc' = "handle"
    /\ cur' = msg
    /\ UNCHANGED <<storeVars, concVars, regVars, srvVars, ctxDone, prod, serveRet, rt>>

\* Serve, the switch: classify cur, run its handler to its end
Handle(fails) ==
    LET o == dispatch(sub, cur, fails)
    IN  /\ spc = "handle"
        /\ \A k \in DOMAIN o.db : Len(o.db[k]) <= MaxValLen
        /\ sub' = o.db
        /\ sent' = o.sent
        /\ hd' = Handled(cur, o)
        /\ members' = membersAfter(members, cur.From, o.did)
        /\ spc' = "log"
        /\ UNCHANGED <<lst, last, listCall, concVars, regVars, ctxDone, prod, cur,
                       serveRet, rt>>

\* a Serve that returns the error of a handler instead of logging it
EndIteration_returnsTheError ==
    /\ spc = "log"
    /\ IF hd.err # ErrNil
       THEN spc' = "returned" /\ serveRet' = hd.err /\ UNCHANGED <<cur, hd, sent>>
       ELSE spc' = "select" /\ cur' = NoMessage /\ hd' = NotHandled /\ sent' = <<>>
                            /\ UNCHANGED serveRet
    /\ UNCHANGED <<storeVars, concVars, regVars, ctxDone, prod, rt>>

\* Serve, the end of the iteration: the error, if any, is logged and the loop
\* goes back to its select
EndIteration ==
    /\ spc = "log"
    /\ spc' = "select"
    /\ cur' = NoMessage
    /\ hd' = NotHandled
    /\ sent' = <<>>
    /\ UNCHANGED <<storeVars, concVars, regVars, ctxDone, prod, serveRet, rt>>

----------------------------------------------------------------------------
(* server.go: Serve with its producers and its context *)

\* the number of goroutines that send envelopes on srv.Msg()
NProducers == 2

Producers == 1..NProducers

\* what the producers send: a command, a post to an open list, a post the
\* list denies
ServeEnvelopes ==
    {Envelope(SubjLists, UA, <<Addr(CommandAddress)>>, <<>>, <<>>),
     Envelope(SubjHello, UBA, <<Addr(AGo)>>, <<>>, <<>>),
     Envelope(SubjHello, UBA, <<Addr(AFc)>>, <<>>, <<>>)}

\* ctx.Err() of a cancelled context
Canceled == "context canceled"

\* a producer: srv.Msg() <- msg; the channel has no buffer, the send blocks
\* until Serve receives
Offer(p, msg) ==
    /\ prod[p] = NoMessage
    /\ prod' = [prod EXCEPT ![p] = msg]
    /\ UNCHANGED <<storeVars, concVars, regVars, srvVars, ctxDone, spc, cur,
                   serveRet, rt>>

\* Serve, case msg := <-srv.msg, for the send of producer p; select takes it
\* whether or not ctx.Done() is ready too
RecvFrom(p) ==
    /\ spc = "select"
    /\ prod[p] # NoMessage
    /\ spc' = "handle"
    /\ cur' = prod[p]
    /\ prod' = [prod EXCEPT ![p] = NoMessage]
    /\ UNCHANGED <<storeVars, concVars, regVars, srvVars, ctxDone, serveRet, rt>>

\* the caller of Serve cancels the context
Cancel ==
    /\ ~ctxDone
    /\ ctxDone' = TRUE
    /\ UNCHANGED <<storeVars, concVars, regVars, srvVars, spc, prod, cur,
                   serveRet, rt>>

\* Serve, case <-ctx.Done(): return ctx.Err()
Return ==
    /\ spc = "select"
    /\ ctxDone
    /\ spc' = "returned"
    /\ serveRet' = Canceled
    /\ UNCHANGED <<storeVars, concVars, regVars, srvVars, ctxDone, prod, cur, rt>>

----------------------------------------------------------------------------
(* message.go: MarshalText and ReadFrom.  The text of a message is its header *)
(* lines, in the order written, and the body after the blank line.           *)

\* ' ', which the header reader trims from both ends of a value
Space == 32

\* one header line "name: value"
Header(name, value) == [name |-> name, value |-> value]

\* MarshalText: the header lines it writes, some only for a non-empty field
MarshalText(msg) ==
    [headers |->
         <<Header("From", msg.From), Header("To", msg.To), Header("Cc", msg.Cc),
           Header("Bcc", msg.Bcc)>>
         \o (IF Len(msg.Date) > 0 THEN <<Header("Date", msg.Date)>> ELSE <<>>)
         \o (IF Len(msg.ID) > 0 THEN <<Header("Messsage-ID", msg.ID)>> ELSE <<>>)
         \o <<Header("In-Reply-To", msg.InReplyTo)>>
         \o (IF Len(msg.XList) > 0
             THEN <<Header("X-Mailing-List", msg.XList), Header("List-ID", msg.XList),
                    Header("Sender", msg.XList)>>
             ELSE <<>>)
         \o (IF Len(msg.ContentType) > 0
             THEN <<Header("Content-Type", msg.ContentType)>> ELSE <<>>)
         \o <<Header("Subject", msg.Subject)>>,
     body |-> msg.Body]

RECURSIVE TrimLeft(_)
TrimLeft(v) == IF v # <<>> /\ Head(v) = Space THEN TrimLeft(Tail(v)) ELSE v

RECURSIVE TrimRight(_)
TrimRight(v) ==
    IF v # <<>> /\ v[Len(v)] = Space THEN TrimRight(SubSeq(v, 1, Len(v) - 1)) ELSE v

\* mail.ReadMessage, then Header.Get(name): the value of the first line of
\* that name with the white space around it trimmed, "" when there is none
Header_Get(text, name) ==
    LET at == {i \in 1..Len(text.headers) : text.headers[i].name = name}
    IN  IF at = {} THEN <<>>
        ELSE TrimRight(TrimLeft(text.headers[CHOOSE i \in at : \A j \in at : i <= j].value))

\* Message.ReadFrom (UnmarshalText) into msg: the fields it assigns
ReadFrom(msg, text) ==
    [msg EXCEPT
         !.Subject = Header_Get(text, "Subject"),
         !.From = Header_Get(text, "From"),
         !.ID = Header_Get(text, "Message-ID"),
         !.InReplyTo = Header_Get(text, "In-Reply-To"),
         !.Body = text.body,
         !.To = Header_Get(text, "To"),
         !.Cc = Header_Get(text, "Cc"),
         !.Bcc = Header_Get(text, "Bcc"),
         !.Date = Header_Get(text, "Date")]

\* "d", a date; "t", a content type
DateD == <<100>>
TypeT == <<116>>

\* the messages marshalled: each field empty or not; the subject "Hello" or
\* the subject Reply gives the answer to a message without subject
RtMessages ==
    {Message(s, UA, to, cc, bcc, d, id, irt, ct, <<>>, b) :
         s \in {SubjHello, RePrefix}, to \in {<<>>, AGo}, cc \in {<<>>, AAn},
         bcc \in {<<>>, AFc}, d \in {<<>>, DateD}, id \in {<<>>, MsgID},
         irt \in {<<>>, MsgID}, ct \in {<<>>, TypeT}, b \in {<<>>, BodyHi}}

NoText == [headers |-> <<>>, body |-> <<>>]

\* data, err := msg.MarshalText()
DoMarshalText ==
    /\ rt.pc = "new"
    /\ rt' = [rt EXCEPT !.pc = "marshalled", !.text = MarshalText(rt.msg)]
    /\ UNCHANGED <<storeVars, concVars, regVars, srvVars, loopVars>>

\* err := new(Message).UnmarshalText(data)
DoUnmarshalText ==
    /\ rt.pc = "marshalled"
    /\ rt' = [rt EXCEPT !.pc = "read", !.back = ReadFrom(NoMessage, rt.text)]
    /\ UNCHANGED <<storeVars, concVars, regVars, srvVars, loopVars>>

----------------------------------------------------------------------------
(* server.go: posts whose relays are looked at field by field *)

\* the posts, a post with every field set (To the list "fc", Cc the list "an",
\* Bcc an address of no list and the list "go") and a post to "go" whose Bcc
\* names "go" after an entry that is no address
RelayEnvelopes ==
    PostEnvelopes
    \cup {Message(SubjHello, f, <<Addr(AFc)>>, <<Addr(AAn)>>,
                  <<Addr(AOther), Addr(AGo)>>, DateD, MsgID, MsgID, TypeT, <<>>, BodyHi) :
              f \in Senders}
    \cup {Envelope(SubjHello, f, <<Addr(AGo)>>, <<>>, <<Addr(NoAddress), Addr(AGo)>>) :
              f \in Senders}

\* the commands that subscribe the senders to the subscribers-only list
RelayMembershipEnvelopes ==
    {Envelope(TrimSubscribe \o LFc, f, <<Addr(CommandAddress)>>, <<>>, <<>>) :
         f \in Senders}

----------------------------------------------------------------------------
(* Initial states and specifications *)

\* a store just opened: both buckets exist and are empty
StoreInit ==
    /\ sub = EmptyBucket
    /\ lst = EmptyBucket
    /\ last = Call("Open", <<>>, <<>>, ErrNil, <<>>)
    /\ listCall = [l \in ListIDs |-> "none"]
    /\ members = [l \in ListIDs |-> {}]

ConcIdle ==
    /\ rwlock = 0
    /\ txn = <<>>
    /\ gpc = <<>>
    /\ gret = <<>>

RegIdle ==
    /\ drivers = EmptyBucket
    /\ mu = [w |-> 0, r |-> {}]
    /\ rpc = <<>>
    /\ rcall = <<>>
    /\ rret = <<>>
    /\ regOK = EmptyBucket
    /\ invoked = <<>>

SrvIdle ==
    /\ hd = <<>>
    /\ sent = <<>>

LoopIdle ==
    /\ ctxDone = FALSE
    /\ spc = "idle"
    /\ prod = <<>>
    /\ cur = <<>>
    /\ serveRet = "none"

MailIdle == SrvIdle /\ LoopIdle /\ rt = <<>>

Init == StoreInit /\ ConcIdle /\ RegIdle /\ MailIdle

\* the subscription bucket: the store's Subscribe/Unsubscribe/Subscribers, the
\* server's start-up and its subscribers
Next ==
    \/ \E u \in Users, l \in ListIDs : Subscribe(u, l)
    \/ \E u \in Users, l \in ListIDs : Unsubscribe(u, l)
    \/ \E l \in ListIDs : SubscribersCall(l)
    \/ NewServer
    \/ \E l \in ListIDs : subscribersCall(l)

Spec == Init /\ [][Next]_vars

\* the store with its "lists" bucket: every operation of database.Store, with
\* the users that do not contain the separator
NextLists ==
    \/ \E l \in ListIDs : AddList(l)
    \/ \E l \in ListIDs : DelList(l)
    \/ \E u \in PlainUsers, l \in ListIDs : Subscribe(u, l)
    \/ \E u \in PlainUsers, l \in ListIDs : Unsubscribe(u, l)
    \/ \E l \in ListIDs : SubscribersCall(l)
    \/ ListsCall
    \/ UsersCall
    \/ BoltDataStoreUsersCall

SpecLists == Init /\ [][NextLists]_vars

\* a store just opened, or one whose key the server's start-up has initialised
ConcInit ==
    /\ sub \in {EmptyBucket, InitKeys(EmptyBucket, CfgLists)}
    /\ lst = EmptyBucket
    /\ last = Call("Open", <<>>, <<>>, ErrNil, <<>>)
    /\ listCall = [l \in ListIDs |-> "none"]
    /\ members = [l \in ListIDs |-> {}]
    /\ rwlock = 0
    /\ txn = [g \in Goroutines |-> EmptyBucket]
    /\ gpc = [g \in Goroutines |-> "call"]
    /\ gret = [g \in Goroutines |-> "none"]
    /\ RegIdle
    /\ MailIdle

\* N goroutines subscribe N distinct addresses to one list
NextConc ==
    \/ \E g \in Goroutines : UpdateBegin(g)
    \/ \E g \in Goroutines : SubscribeFn(g)
    \/ \E g \in Goroutines : UpdateCommit(g)

SpecConc == ConcInit /\ [][NextConc]_vars

\* the registry as the package declares it: no driver, the mutex free
RegInit ==
    /\ StoreInit
    /\ ConcIdle
    /\ drivers = EmptyBucket
    /\ mu = [w |-> 0, r |-> {}]
    /\ rpc = [c \in Clients |-> "idle"]
    /\ rcall = [c \in Clients |-> NoCall]
    /\ rret = [c \in Clients |-> NoRet]
    /\ regOK = EmptyBucket
    /\ invoked = [c \in Clients |-> <<>>]
    /\ MailIdle

\* clients that call Register, Open and Drivers in any order, concurrently
NextReg ==
    \/ \E c \in Clients, n \in DriverNames, d \in Factories \cup {NilDriver} :
           RegisterLock(c, n, d)
    \/ \E c \in Clients : RegisterBody(c)
    \/ \E c \in Clients, n \in DriverNames, s \in Sources : OpenRLock(c, n, s)
    \/ \E c \in Clients : OpenLookup(c)
    \/ \E c \in Clients : OpenReturn(c)
    \/ \E c \in Clients : DriversRLock(c)
    \/ \E c \in Clients : DriversBody(c)

SpecReg == RegInit /\ [][NextReg]_vars

\* the server after NewServer on a new database, Serve at its select: every
\* configured list has its key, no envelope has been received
SrvStart ==
    /\ sub = InitKeys(EmptyBucket, cfg_ListIDs)
    /\ lst = EmptyBucket
    /\ last = Call("NewServer", <<>>, <<>>, ErrNil, <<>>)
    /\ listCall = [l \in ListIDs |-> "none"]
    /\ members = [l \in cfg_ListIDs |-> {}]
    /\ hd = NotHandled
    /\ sent = <<>>
    /\ ctxDone = FALSE
    /\ spc = "select"
    /\ cur = NoMessage
    /\ serveRet = "none"
    /\ rt = <<>>
    /\ ConcIdle /\ RegIdle

SrvInit == SrvStart /\ prod = <<>>

\* the server given command envelopes
NextCmd ==
    \/ \E msg \in CmdEnvelopes : Recv(msg)
    \/ \E fails \in SUBSET (1..NCalls(cur)) : Handle(fails)
    \/ EndIteration

SpecCmd == SrvInit /\ [][NextCmd]_vars

\* the server given posts, and the commands that change who is subscribed
NextPost ==
    \/ \E msg \in PostEnvelopes : Recv(msg)
    \/ \E msg \in MembershipEnvelopes : Recv(msg)
    \/ \E fails \in SUBSET (1..NCalls(cur)) : Handle(fails)
    \/ EndIteration

SpecPost == SrvInit /\ [][NextPost]_vars

\* the server given posts, and the commands that subscribe to the list "fc"
NextRelay ==
    \/ \E msg \in RelayEnvelopes : Recv(msg)
    \/ \E msg \in RelayMembershipEnvelopes : Recv(msg)
    \/ \E fails \in SUBSET (1..NCalls(cur)) : Handle(fails)
    \/ EndIteration

SpecRelay == SrvInit /\ [][NextRelay]_vars

\* the server given envelopes with any recipient fields
NextDispatch ==
    \/ \E msg \in AnyEnvelopes : Recv(msg)
    \/ \E fails \in SUBSET (1..NCalls(cur)) : Handle(fails)
    \/ EndIteration

SpecDispatch == SrvInit /\ [][NextDispatch]_vars

\* Serve with its producers, none of them sending yet
ServeInit == SrvStart /\ prod = [p \in Producers |-> NoMessage]

\* Serve, the producers that send on its channel, the caller that cancels
NextServe ==
    \/ \E p \in Producers, msg \in ServeEnvelopes : Offer(p, msg)
    \/ \E p \in Producers : RecvFrom(p)
    \/ \E fails \in SUBSET (1..NCalls(cur)) : Handle(fails)
    \/ EndIteration
    \/ Cancel
    \/ Return

SpecServe == ServeInit /\ [][NextServe]_vars

\* select chooses at random among the cases that are ready, so a case that is
\* ready again and again is taken; a handler that is running returns
SpecServeFair ==
    /\ SpecServe
    /\ SF_vars(Return)
    /\ WF_vars(\E fails \in SUBSET (1..NCalls(cur)) : Handle(fails))
    /\ WF_vars(EndIteration)

\* a message about to be marshalled
MsgInit ==
    /\ StoreInit /\ ConcIdle /\ RegIdle /\ SrvIdle /\ LoopIdle
    /\ rt \in {[pc |-> "new", msg |-> m, text |-> NoText, back |-> NoMessage] :
                   m \in RtMessages}

\* MarshalText, then UnmarshalText of what it wrote
NextMsg ==
    \/ DoMarshalText
    \/ DoUnmarshalText

SpecMsg == MsgInit /\ [][NextMsg]_vars

----------------------------------------------------------------------------
(* Properties of the subscription store *)

Range(s) == {s[i] : i \in 1..Len(s)}

\* every element occurs once and the elements ascend in byte order
StrictlyAscending(s) == \A i \in 1..(Len(s) - 1) : Less(s[i], s[i + 1])

\* the number of positions of s that hold x
Count(s, x) == Cardinality({i \in 1..Len(s) : s[i] = x})

\* C1: after any sequence of Subscribe and Unsubscribe calls, Subscribers of a
\* list, when it succeeds, returns each address at most once, in ascending
\* byte order.
C1_SubscribersSortedNoDup ==
    \A l \in ListIDs :
        Subscribers(sub, l).err = ErrNil
            => StrictlyAscending(Subscribers(sub, l).users)

\* C2: N concurrent Subscribe calls for one list with N distinct addresses all
\* return without error, and afterwards Subscribers returns exactly the N
\* addresses, ascending.
C2_ConcurrentSubscribeExactlyN ==
    (\A g \in Goroutines : gpc[g] = "done") =>
        /\ \A g \in Goroutines : gret[g] = ErrNil
        /\ Subscribers(sub, ConcList) =
               [err |-> ErrNil,
                users |-> KeysInOrder({ConcUser(g) : g \in Goroutines})]

\* C3: Subscribers fails with the invalid-list-ID error on a key never
\* initialised, and returns the empty sequence, without error, on a key that
\* is initialised and has no subscribers.
C3_SubscribersOfEmptyList ==
    last.op \in {"Subscribers", "subscribers"} =>
        /\ last.list \notin DOMAIN sub => last.err = ErrInvalidListID
        /\ (last.list \in DOMAIN sub /\ members[last.list] = {})
               => (last.err = ErrNil /\ last.ret = <<>>)

\* C4: Unsubscribe of a user who is not a member returns no error and leaves
\* the outcome of Subscribers the same for every list, a list whose key was
\* never initialised included.
C4_UnsubscribeNonMemberNoOp ==
    [][\A u \in Users, l \in ListIDs :
          (Unsubscribe(u, l) /\ u \notin members[l]) =>
              /\ last'.err = ErrNil
              /\ \A m \in ListIDs : Subscribers(sub', m) = Subscribers(sub, m)]_vars

\* C5: Subscribe of a user who is already subscribed returns no error and
\* leaves the stored set unchanged: a second Subscribe(u, l) yields the same
\* Subscribers(l) as the first, for every user string.
C5_SubscribeTwiceSameAsOnce ==
    [][\A u \in Users, l \in ListIDs :
          (Subscribe(u, l) /\ u \in members[l]) =>
              /\ last'.err = ErrNil
              /\ Subscribers(sub', l) = Subscribers(sub, l)]_vars

\* C6: Lists() returns each list ID at most once and holds an ID exactly when
\* the most recent AddList/DelList call on it was AddList; repeating AddList
\* or DelList changes nothing.
C6_ListsAreTheActiveLists ==
    /\ [](/\ \A id \in ListIDs : Count(Lists(lst), id) <= 1
          /\ \A id \in ListIDs :
                 id \in Range(Lists(lst)) <=> listCall[id] = "AddList"
          /\ Range(Lists(lst)) \subseteq ListIDs)
    /\ [][\A l \in ListIDs :
             /\ (AddList(l) /\ listCall[l] = "AddList") => Lists(lst') = Lists(lst)
             /\ (DelList(l) /\ listCall[l] = "DelList") => Lists(lst') = Lists(lst)]_vars

\* a list was added, another added and then deleted, and Lists() was called
C6_Witness ==
    /\ last.op = "Lists"
    /\ last.ret # <<>>
    /\ \E id \in ListIDs : listCall[id] = "DelList"

\* C7: AddList and DelList leave the outcome of Subscribers the same for every
\* list: they neither clear nor create a subscriber set.
C7_AddDelListKeepSubscribers ==
    [][\A l \in ListIDs :
          (AddList(l) \/ DelList(l)) =>
              \A m \in ListIDs : Subscribers(sub', m) = Subscribers(sub, m)]_vars

\* a list with a subscriber was deleted, and another list has no key yet
C7_Witness ==
    /\ last.op = "DelList"
    /\ members[last.list] # {}
    /\ Subscribers(sub, last.list).err = ErrNil
    /\ \E m \in ListIDs : Subscribers(sub, m).err = ErrInvalidListID

\* C8: Users() returns the subscriber addresses of the active lists and only
\* those: an address subscribed to k active lists appears exactly k times.
C8_UsersOfActiveLists ==
    last.op = "Users" =>
        /\ last.err = ErrNil
        /\ \A u \in Range(last.ret) \cup Users :
               Count(last.ret, u) =
                   Cardinality({l \in ListIDs :
                       listCall[l] = "AddList" /\ u \in members[l]})

----------------------------------------------------------------------------
(* Properties of the driver registry *)

\* C9: Register panics when the name is already registered or the factory is
\* nil, and then leaves the registry unchanged; under any interleaving the
\* factory first registered under a name is never replaced, and Drivers()
\* lists exactly the successfully registered names, each once, ascending.
C9_RegisterPanicsAndDriversSorted ==
    /\ [][\A c \in Clients :
             (rpc[c] = "Register" /\ rpc'[c] = "idle") =>
                 IF rcall[c].driver = NilDriver \/ rcall[c].name \in DOMAIN regOK
                 THEN rret'[c].panic # "" /\ drivers' = drivers
                 ELSE /\ rret'[c].panic = ""
                      /\ drivers' = Put(drivers, rcall[c].name, rcall[c].driver)]_vars
    /\ [][\A n \in DOMAIN drivers :
             n \in DOMAIN drivers' /\ drivers'[n] = drivers[n]]_vars
    /\ [](drivers = regOK)
    /\ [][\A c \in Clients :
             (rpc[c] = "Drivers" /\ rpc'[c] = "idle") =>
                 /\ StrictlyAscending(rret'[c].list)
                 /\ Range(rret'[c].list) = DOMAIN regOK]_vars

\* one client's Register panicked on a name registered before while another
\* client's Drivers() has returned both names
C9_Witness ==
    \E c, d \in Clients :
        /\ rret[c].op = "Register" /\ rret[c].panic = "Register called twice"
        /\ rret[d].op = "Drivers" /\ Len(rret[d].list) = 2
        /\ DOMAIN drivers = DriverNames

\* C10: Open returns ErrUnknownDriver, invoking no factory, when no Register of
\* the name has succeeded; otherwise it invokes exactly the factory registered
\* under the name, with the source, and returns its store or error unchanged.
C10_OpenInvokesTheRegisteredFactory ==
    /\ [][\A c \in Clients :
             (rpc[c] = "Open" /\ rpc'[c] = "Open_unlocked") =>
                 /\ rcall'[c].ok <=> rcall[c].name \in DOMAIN regOK
                 /\ rcall'[c].ok => rcall'[c].driveri = regOK[rcall[c].name]]_vars
    /\ [][\A c \in Clients :
             (rpc[c] = "Open_unlocked" /\ rpc'[c] = "idle") =>
                 LET n == rcall[c].name
                     s == rcall[c].src
                 IN  /\ n \notin DOMAIN regOK => ~rcall[c].ok
                     /\ IF ~rcall[c].ok
                        THEN /\ rret'[c].err = ErrUnknownDriver
                             /\ rret'[c].store = <<>>
                             /\ invoked'[c] = <<>>
                        ELSE /\ invoked'[c] = << <<regOK[n], s>> >>
                             /\ rret'[c].store = Driver(regOK[n], s).store
                             /\ rret'[c].err = Driver(regOK[n], s).err]_vars

\* one Open has returned ErrUnknownDriver and another the store its factory made
C10_Witness ==
    \E c, d \in Clients :
        /\ rret[c].op = "Open" /\ rret[c].err = ErrUnknownDriver
        /\ invoked[c] = <<>>
        /\ rret[d].op = "Open" /\ rret[d].store # <<>>
        /\ Len(invoked[d]) = 1

----------------------------------------------------------------------------
(* Properties of the server's handlers *)

\* a step in which the handler of cur runs
HandleStep == spc = "handle" /\ spc' = "log"

\* msg is a command whose subject is "subscribe <key>", <key> the ID or the
\* address of the configured list l
SubscribeCommandFor(msg, l) ==
    /\ isCommand(msg)
    /\ msg.Subject \in {TrimSubscribe \o l.ID, TrimSubscribe \o l.Address}

\* C11: a "subscribe <key>" command for a configured list from a sender that
\* is not subscribed to it leaves the list's stored subscriber set equal to
\* the previous set plus the sender (exactly {sender} when there was no
\* subscriber), and hands the transport exactly one reply for the sender, its
\* body "You are now subscribed to <list ID>".
C11_SubscribeAddsTheSender ==
    [][\A l \in cfg_Lists :
           (HandleStep /\ SubscribeCommandFor(cur, l) /\ cur.From \notin members[l.ID])
               => /\ Range(subscribers(sub', l.ID).users) = members[l.ID] \cup {cur.From}
                  /\ Len(sent') = 1
                  /\ sent'[1].to = <<cur.From>>
                  /\ sent'[1].msg.Body =
                         Body("You are now subscribed to %s", {}, l.ID)]_vars

\* the list the transport call relays a post to, as the X-Mailing-List header
\* of the message it carries names it
RelayOf(call, l) == call.msg.XList = <<Mailbox(l.ID, l.Address)>>

\* the transport call is the denial notice for list l
DenialOf(call, l) ==
    call.msg.Body = Body("You are not an approved poster for this mailing list (%s). Your message has not been delivered.",
                         {}, l.Address)

\* the posting policy of list l lets from post: it has subscribed to a
\* subscribers-only list, it is on the whitelist when there is one
MayPost(from, l) ==
    /\ ~l.SubscribersOnly \/ from \in members[l.ID]
    /\ l.Posters = <<>> \/ from \in Range(l.Posters)

\* the handler of the post cur has returned
PostHandled == spc = "log" /\ hd.handler = "handleMessage"

\* C12: a post is relayed to a list only if the list is not subscribers-only
\* or the sender is subscribed, and the whitelist is empty or names the
\* sender; a post that is denied reaches no subscriber and no bcc address of
\* the list, and the sender is sent the denial notice of that list.
C12_RelayOnlyIfPolicyAllows ==
    PostHandled =>
        \A i \in 1..Len(lookupLists(cur)) :
            LET l == lookupLists(cur)[i]
            IN  /\ (\E k \in 1..Len(sent) : RelayOf(sent[k], l)) => MayPost(cur.From, l)
                /\ ~MayPost(cur.From, l) =>
                       /\ \A k \in 1..Len(sent) : ~RelayOf(sent[k], l)
                       /\ \E k \in 1..Len(sent) :
                              DenialOf(sent[k], l) /\ sent[k].to = <<cur.From>>

\* C13: when the handler of a post returns, each list the post names and
\* that lets the sender post has a relay handed to the transport whose
\* recipients are exactly the subscribers of the list and its bcc addresses,
\* none of them the empty address; each list that denies the post has no
\* relay and one denial notice.
C13_RelayRecipientsAreSubscribersAndBcc ==
    PostHandled =>
        \A i \in 1..Len(lookupLists(cur)) :
            LET l == lookupLists(cur)[i]
                relays == {k \in 1..Len(sent) : RelayOf(sent[k], l)}
                denials == {k \in 1..Len(sent) : DenialOf(sent[k], l)}
            IN  IF canPost(sub, cur.From, l)
                THEN /\ relays # {}
                     /\ \A k \in relays :
                            /\ Range(sent[k].to) = members[l.ID] \cup Range(l.Bcc)
                            /\ <<>> \notin Range(sent[k].to)
                ELSE /\ relays = {}
                     /\ Cardinality(denials) = 1

\* the handler of the command cur has returned
CommandHandled == spc = "log" /\ hd.command

\* C14: the body of a "lists" or "subscriptions" reply never mentions a
\* hidden list; the "lists" reply mentions every list that is not hidden; the
\* "subscriptions" reply mentions exactly the lists, not hidden, that the
\* sender is subscribed to.
C14_HiddenListsAreNotShown ==
    CommandHandled =>
        /\ cur.Subject \in {SubjLists, SubjSubscriptions} =>
               \A k \in 1..Len(sent) : \A l \in cfg_Lists :
                   l.Hidden => l.ID \notin sent[k].msg.Body.lists
        /\ cur.Subject = SubjLists =>
               /\ Len(sent) = 1
               /\ sent[1].msg.Body.lists = {l.ID : l \in {x \in cfg_Lists : ~x.Hidden}}
        /\ cur.Subject = SubjSubscriptions =>
               /\ Len(sent) = 1
               /\ sent[1].msg.Body.lists =
                      {l.ID : l \in {x \in cfg_Lists :
                                        ~x.Hidden /\ cur.From \in members[x.ID]}}

----------------------------------------------------------------------------
(* Properties of the message text *)

\* C15: MarshalText followed by UnmarshalText gives back the subject, from,
\* to, cc, bcc, date, message ID, in-reply-to and body of the message.
C15_MarshalUnmarshalRoundTrip ==
    rt.pc = "read" =>
        /\ rt.back.Subject = rt.msg.Subject
        /\ rt.back.From = rt.msg.From
        /\ rt.back.To = rt.msg.To
        /\ rt.back.Cc = rt.msg.Cc
        /\ rt.back.Bcc = rt.msg.Bcc
        /\ rt.back.Date = rt.msg.Date
        /\ rt.back.ID = rt.msg.ID
        /\ rt.back.InReplyTo = rt.msg.InReplyTo
        /\ rt.back.Body = rt.msg.Body

\* the handler the command table gives a subject: "lists", "help" and
\* "subscriptions" exactly, "subscribe " and "unsubscribe " as prefixes
\* that end in a space, the unknown-command reply for the rest
TableHandler(subject) ==
    IF subject = SubjLists THEN "handleShowLists"
    ELSE IF subject = SubjHelp THEN "handleHelp"
    ELSE IF subject = SubjSubscriptions THEN "handleShowSubscriptions"
    ELSE IF HasPrefix(subject, TrimSubscribe) THEN "handleSubscribe"
    ELSE IF HasPrefix(subject, TrimUnsubscribe) THEN "handleUnsubscribe"
    ELSE "handleUnknownCommand"

\* C19: a command runs the handler its subject selects, compared with case:
\* exactly "lists", "help", "subscriptions", the prefixes "subscribe " and
\* "unsubscribe " with their space; every other subject ("subscribe",
\* "subscribers", "subscribego", "Lists") gets the unknown-command reply and
\* does not reach the subscribe or unsubscribe handler.
C19_SubjectSelectsTheHandler ==
    CommandHandled =>
        /\ hd.handler = TableHandler(cur.Subject)
        /\ TableHandler(cur.Subject) = "handleUnknownCommand" =>
               /\ Len(sent) = 1
               /\ sent[1].msg.Body =
                      Body("%s is not a valid command. Valid commands are: commandInfo",
                           {}, cur.Subject)

\* C20: every reply a command handler hands to the transport is from the
\* command address, has the subject "Re: " followed by the subject of the
\* command, is to the sender of the command and in reply to its message ID,
\* and the sender is its only recipient.
C20_RepliesComeFromTheCommandAddress ==
    CommandHandled =>
        \A k \in 1..Len(sent) :
            /\ sent[k].msg.From = CommandAddress
            /\ sent[k].from = CommandAddress
            /\ sent[k].msg.Subject = RePrefix \o cur.Subject
            /\ sent[k].msg.To = cur.From
            /\ sent[k].msg.InReplyTo = cur.ID
            /\ sent[k].to = <<cur.From>>

\* the list a key names: its ID or its address; none for an unknown key
ListsNamed(key) == {l \in cfg_Lists : key \in {l.ID, l.Address}}

\* the one reply of the handler is to the sender and has this text
OneReplyWith(texts) ==
    /\ Len(sent') = 1
    /\ sent'[1].to = <<cur.From>>
    /\ sent'[1].msg.Body.text \in texts

\* the argument of a "subscribe <key>" or "unsubscribe <key>" subject
KeyOf(subject, prefix) == SubSeq(subject, Len(prefix) + 1, Len(subject))

\* C21: a subscribe command that names an unknown list or comes from a sender
\* that is subscribed already, and an unsubscribe command that names an
\* unknown list or comes from a sender that is not subscribed, leave the
\* subscribers of every list as they were and send the sender exactly one
\* reply: the error reply for an unknown list, the informational one otherwise.
C21_NoOpCommandsChangeNothing ==
    [][(HandleStep /\ isCommand(cur)) =>
           /\ HasPrefix(cur.Subject, TrimSubscribe) =>
                  LET named == ListsNamed(KeyOf(cur.Subject, TrimSubscribe))
                  IN  /\ named = {} =>
                             /\ sub' = sub
                             /\ OneReplyWith({"Unable to subscribe to %s  - it is not a valid mailing list."})
                      /\ \A l \in named : cur.From \in members[l.ID] =>
                             /\ sub' = sub
                             /\ OneReplyWith({"You are already subscribed to %s"})
           /\ HasPrefix(cur.Subject, TrimUnsubscribe) =>
                  LET named == ListsNamed(KeyOf(cur.Subject, TrimUnsubscribe))
                  IN  /\ named = {} =>
                             /\ sub' = sub
                             /\ OneReplyWith({"Unable to unsubscribe from %s  - it is not a valid mailing list."})
                      /\ \A l \in named : cur.From \notin members[l.ID] =>
                             /\ sub' = sub
                             /\ OneReplyWith({"You aren't subscribed to %s"})]_vars

\* the transport calls of the handler that failed, by their number
FailedCalls == {k \in 1..Len(sent) : sent[k].err # ErrNil}

\* the greatest element of a set of numbers that is not empty
Max(S) == CHOOSE x \in S : \A y \in S : y <= x

\* C22: in a post to several lists a failure for one list does not keep the
\* relay or the denial notice of a later list from being attempted: every
\* matched list, in order, has its transport call; the error handleMessage
\* returns is that of the last call that failed, nil when none failed.
C22_FailuresDoNotStopLaterLists ==
    PostHandled =>
        LET lists == lookupLists(cur)
        IN  /\ Len(sent) = Len(lists)
            /\ \A k \in 1..Len(lists) :
                   RelayOf(sent[k], lists[k]) \/ DenialOf(sent[k], lists[k])
            /\ hd.err = IF FailedCalls = {} THEN ErrNil ELSE sent[Max(FailedCalls)].err

\* a post to three lists: the relays of the first and of the second failed,
\* each with its own error, the relay of the third was sent all the same, and
\* the error returned is the second's
C22_Witness ==
    /\ PostHandled
    /\ Len(lookupLists(cur)) = 3
    /\ FailedCalls = {1, 2}
    /\ RelayOf(sent[1], FcList)
    /\ RelayOf(sent[2], AnList)
    /\ RelayOf(sent[3], GoList)
    /\ sent[1].err # sent[2].err
    /\ hd.err = sent[2].err

\* the k-th transport call of the post just handled is the relay to the
\* k-th matched list: the sender may post to it
IsRelay(k) == canPost(sub, cur.From, lookupLists(cur)[k])

\* the address is that of some entry of the field
Present(address, field) == \E i \in 1..Len(field) : field[i].address = address

\* C23: the relay ResendAs builds keeps the subject, from, to, cc, date,
\* message ID and in-reply-to of the original, has "listID <listAddress>" as
\* its list-routing header, and has a Bcc that is not empty only if the
\* list's address was in the Bcc of the original, the Bcc then naming that
\* list alone: never an address of the list's configured Bcc, never another
\* address of the original Bcc.
C23_RelayKeepsHeadersAndHidesBcc ==
    PostHandled =>
        \A k \in 1..Len(sent) :
            IsRelay(k) =>
                LET l == lookupLists(cur)[k]
                    fwd == sent[k].msg
                IN  /\ fwd.Subject = cur.Subject
                    /\ fwd.From = cur.From
                    /\ fwd.To = cur.To
                    /\ fwd.Cc = cur.Cc
                    /\ fwd.Date = cur.Date
                    /\ fwd.ID = cur.ID
                    /\ fwd.InReplyTo = cur.InReplyTo
                    /\ fwd.XList = <<Mailbox(l.ID, l.Address)>>
                    /\ fwd.Bcc # <<>> =>
                           /\ Present(l.Address, cur.Bcc)
                           /\ fwd.Bcc = <<Mailbox(l.ID, l.Address)>>
                    /\ \A i \in 1..Len(l.Bcc) : ~Present(l.Bcc[i], fwd.Bcc)
                    /\ \A i \in 1..Len(cur.Bcc) :
                           cur.Bcc[i].address # l.Address
                               => ~Present(cur.Bcc[i].address, fwd.Bcc)

\* a post with every header set, its Bcc naming another address and the list
\* "go", which has a configured Bcc: relayed to "fc" with an empty Bcc and to
\* "go" with a Bcc that names "go" alone
C23_Witness ==
    /\ PostHandled
    /\ cur.Bcc = <<Addr(AOther), Addr(AGo)>>
    /\ cur.Date # <<>> /\ cur.InReplyTo # <<>> /\ cur.Cc # <<>>
    /\ Len(sent) = 3
    /\ IsRelay(1) /\ sent[1].msg.Bcc = <<>> /\ sent[1].msg.XList = <<Mailbox(LFc, AFc)>>
    /\ IsRelay(3) /\ sent[3].msg.Bcc = <<Mailbox(LGo, AGo)>>
    /\ GoList.Bcc # <<>>
    /\ sent[3].to # <<>> /\ sent[3].err = ErrNil

\* C24: a post is relayed at most once to each configured list for an
\* envelope: a list whose address is in the recipient fields several times,
\* or in more than one of them, has a single relay, and a sender denied by
\* it a single denial notice.
C24_OneRelayPerList ==
    PostHandled =>
        \A l \in cfg_Lists :
            /\ Cardinality({k \in 1..Len(sent) : RelayOf(sent[k], l)}) <= 1
            /\ Cardinality({k \in 1..Len(sent) : DenialOf(sent[k], l)}) <= 1

\* C25: the relay carries the body and the content type of the post
\* unchanged: the message handed to the transport for a list that accepts
\* the post has the Body and the ContentType of the inbound envelope.
C25_RelayCarriesTheBody ==
    PostHandled =>
        \A k \in 1..Len(sent) :
            IsRelay(k) =>
                /\ sent[k].msg.Body = cur.Body
                /\ sent[k].msg.ContentType = cur.ContentType

----------------------------------------------------------------------------
(* Properties of Serve *)

\* a step in which Serve receives an envelope
ReceiveStep == spc = "select" /\ spc' = "handle"

\* C16: once the context is cancelled Serve receives no further envelope,
\* whatever the producers offer, and it returns only when the context is
\* cancelled, with the context's error.
C16_NoReceiveAfterCancel ==
    [][/\ ctxDone => ~ReceiveStep
       /\ spc' = "returned" => ctxDone /\ serveRet' = Canceled]_vars

\* the rest of C16: once the context is cancelled Serve eventually returns
C16_EventuallyReturns == ctxDone ~> (spc = "returned")

\* the handlers handleCommand chooses from
CommandHandlers ==
    {"handleShowLists", "handleHelp", "handleShowSubscriptions", "handleSubscribe",
     "handleUnsubscribe", "handleUnknownCommand"}

\* the handlers of a post
PostHandlers == {"handleMessage", "handleNoDestination"}

\* C17: whatever the producers do, Serve receives an envelope only when no
\* handler is running, and the envelope is one a producer was sending; the
\* envelope received is classified once and one handler, of the commands for
\* a command and of the posts otherwise, runs for it and returns before
\* another envelope is received; whether or not the handler returned an
\* error, the loop goes back to receive.
C17_OneHandlerPerEnvelope ==
    [][/\ (cur' # cur /\ cur' # NoMessage) =>
              /\ ReceiveStep
              /\ hd = NotHandled /\ hd' = NotHandled
              /\ \E p \in Producers : prod[p] = cur' /\ prod'[p] = NoMessage
       /\ hd' # hd /\ hd' # NotHandled =>
              /\ HandleStep
              /\ hd = NotHandled
              /\ cur' = cur
              /\ hd'.command = isCommand(cur)
              /\ hd'.handler \in (IF isCommand(cur) THEN CommandHandlers ELSE PostHandlers)
       /\ spc = "handle" => (spc' = "handle" \/ HandleStep)
       /\ spc = "log" => spc' \in {"log", "select"}]_vars

\* a handler has returned an error to Serve
C17_Witness ==
    /\ spc = "log"
    /\ hd.err # ErrNil
    /\ \E p \in Producers : prod[p] # NoMessage

\* the addresses of a recipient field that parses as an address list; none
\* for a field that does not
ParsedRecipients(field) ==
    IF ParseAddressList(field).err = ErrNil
    THEN {field[i].address : i \in 1..Len(field)} ELSE {}

\* C18: an envelope is handled as a command exactly when the command address
\* is among the addresses of a To, Cc or Bcc field that parses, a field that
\* does not parse being skipped; a command runs one of the command handlers
\* and is relayed to no list, also when it names a list address as well.
C18_CommandIffCommandAddressIsARecipient ==
    spc = "log" =>
        /\ hd.command <=>
               CommandAddress \in ParsedRecipients(cur.To) \cup ParsedRecipients(cur.Cc)
                                      \cup ParsedRecipients(cur.Bcc)
        /\ hd.command =>
               /\ hd.handler \in CommandHandlers
               /\ \A k \in 1..Len(sent) : \A l \in cfg_Lists : ~RelayOf(sent[k], l)
        /\ ~hd.command => hd.handler \in PostHandlers

\* an envelope to a list, with a Cc that does not parse and the command
\* address in its Bcc, has been handled
C18_Witness ==
    /\ spc = "log"
    /\ cur.To = <<Addr(AGo)>>
    /\ cur.Cc = <<Addr(CommandAddress), Addr(NoAddress)>>
    /\ cur.Bcc = <<Addr(AGo), Addr(CommandAddress)>>
    /\ hd.handler = "handleShowLists"
====
